---- MODULE Spec2Model ----
(***************************************************************************)
(* A model of the promptuna SDK core: the variant selector                 *)
(* (routing/selector.ts), the fallback executor (utils/fallbackExecutor.ts),*)
(* the observability builder (utils/observabilityBuilder.ts) and the       *)
(* orchestrator's chatCompletion (Promptuna.ts).                           *)
(*                                                                         *)
(* Seven specifications:                                                   *)
(*   SpecRoute   one selectVariant call on a prompt/request drawn from     *)
(*               bounded sets;                                             *)
(*   SpecRepeat  repeated selectVariant calls on one prompt;               *)
(*   Spec        one chatCompletion call, stepped at its await points;     *)
(*   SpecCache   one instance under concurrent getTemplate and             *)
(*               chatCompletion calls: its three caches;                   *)
(*   SpecValidate  one parsed config file handed to ConfigValidator,       *)
(*               validateConfig or ConfigLoader;                           *)
(*   SpecAdapter one failing SDK call in a provider adapter, and the       *)
(*               executor's catch block after it;                          *)
(*   SpecParams  one buildProviderParams call.                             *)
(***************************************************************************)
EXTENDS Integers, Sequences, FiniteSets, TLC

\* JavaScript `undefined`
None == "undefined"

\* an optional number: absent, or present with a value
Absent == <<>>
Some(x) == <<x>>

\* no error held, no result yet, selectVariant not called yet
NoError == [type |-> "none"]
NoResult == [kind |-> "none"]
NoSelection == [ok |-> FALSE, error |-> "not-called"]

\* no validator or loader has run yet
NoVerdict == [by |-> None, ok |-> FALSE]

----------------------------------------------------------------------------
(* Bounds of the model *)

\* longest routing.rules list of a drawn prompt
MaxRules == 2
\* longest routing.phased list of a drawn prompt
MaxPhases == 2
\* longest variant.fallback list of a drawn config
MaxFallbacks == 2

----------------------------------------------------------------------------
(* 32-bit words as <<high half, low half>>, so that the digest arithmetic  *)
(* stays inside the checker's integers.                                    *)

Half == 65536

\* w * k for a word w and a small natural k, as a (possibly wider) pair
\* whose low half is normalised
Mul(w, k) ==
  LET lo == w[2] * k
  IN  <<w[1] * k + (lo \div Half), lo % Half>>

Less(a, b) == a[1] < b[1] \/ (a[1] = b[1] /\ a[2] < b[2])

Min(S) == CHOOSE x \in S : \A y \in S : x <= y

----------------------------------------------------------------------------
(* routing/selector.ts *)

\* The first 8 hex digits of a SHA-256 digest: the digest itself is not
\* computed; the words below are the values a digest prefix can take that
\* matter to the weighted pick (all zeros, the middle, all ones).
HashWords == {<<0, 0>>, <<32768, 0>>, <<65535, 65535>>}

\* Math.random() draws k / 2^32 with 0 <= k < 2^32
RandomWords == {<<0, 0>>, <<32768, 0>>, <<65535, 65535>>}

\* deterministicRandom that draws from Math.random() for every caller
deterministicRandomUnseeded(userId, digest, random) ==
  [num |-> random, den |-> <<65536, 0>>]

\* deterministicRandom: a fraction num/den; parseInt(hex, 16) / 0xffffffff
\* for a known user, Math.random() otherwise
deterministicRandom(userId, digest, random) ==
  IF userId = None
  THEN [num |-> random, den |-> <<65536, 0>>]
  ELSE [num |-> digest, den |-> <<65535, 65535>>]

\* r.weight ?? 100
WeightOrDefault(w) == IF w = Absent THEN 100 ELSE w[1]

\* weightMap[k] = w on a JavaScript object: a new key goes last, an
\* existing key keeps its place and takes the new value
SetEntry(m, k, w) ==
  IF \E i \in 1..Len(m) : m[i].key = k
  THEN [i \in 1..Len(m) |->
          IF m[i].key = k THEN [key |-> k, weight |-> w] ELSE m[i]]
  ELSE Append(m, [key |-> k, weight |-> w])

RECURSIVE BuildWeightMap(_, _)
\* for (const r of rs) weightMap[r.target] = r.weight ?? 100
BuildWeightMap(rs, n) ==
  IF n = 0 THEN <<>>
  ELSE SetEntry(BuildWeightMap(rs, n - 1), rs[n].target,
                WeightOrDefault(rs[n].weight))

RECURSIVE SumWeights(_, _)
SumWeights(entries, n) ==
  IF n = 0 THEN 0 ELSE SumWeights(entries, n - 1) + entries[n].weight

\* pickWeighted: threshold = rand * total; the first entry after whose
\* subtraction the threshold is negative; entries[0] when none is.
\* rand * total - (w1 + .. + wi) < 0 is decided in exact arithmetic, as
\* num * total < den * (w1 + .. + wi); the rounding of the source's
\* doubles is not modelled.
pickWeighted(weights, rand) ==
  LET total   == SumWeights(weights, Len(weights))
      crossed == {i \in 1..Len(weights) :
                    Less(Mul(rand.num, total),
                         Mul(rand.den, SumWeights(weights, i)))}
  IN  IF crossed # {} THEN weights[Min(crossed)] ELSE weights[1]

\* validateAndGetVariant: the variant, or a thrown Error
HasVariant(variants, variantId) ==
  \E i \in 1..Len(variants) : variants[i].id = variantId

GetVariant(variants, variantId) ==
  variants[CHOOSE i \in 1..Len(variants) : variants[i].id = variantId]

\* rules.filter(r => Array.isArray(r.tags) && r.tags.some(t => tags.includes(t)))
TagRules(rules, tags) ==
  SelectSeq(rules, LAMBDA r : r.tags \cap tags # {})

\* rules.filter(r => !r.tags || r.tags.length === 0)
DefaultRules(rules) ==
  SelectSeq(rules, LAMBDA r : r.tags = {})

\* p.start <= now && (p.end === undefined || now <= p.end)
Covers(p, now) == p.start <= now /\ (p.end = Absent \/ now <= p.end[1])

\* currentPhase with the last listed entry winning among equal starts
CurrentPhaseLastListed(phases, now) ==
  LET covering == SelectSeq(phases, LAMBDA p : Covers(p, now))
  IN  IF covering = <<>> THEN Absent
      ELSE Some(covering[CHOOSE i \in 1..Len(covering) :
                           /\ \A j \in 1..Len(covering) :
                                covering[j].start <= covering[i].start
                           /\ \A j \in (i + 1)..Len(covering) :
                                covering[j].start < covering[i].start])

\* phases.filter(covers).sort((a, b) => b.start - a.start)[0]: the sort is
\* stable, so among equal starts the entry listed first stays first
CurrentPhase(phases, now) ==
  LET covering == SelectSeq(phases, LAMBDA p : Covers(p, now))
  IN  IF covering = <<>> THEN Absent
      ELSE Some(covering[Min({i \in 1..Len(covering) :
                           \A j \in 1..Len(covering) :
                             covering[j].start <= covering[i].start})])

\* the result of a weighted layer: the picked key, validated
Picked(prompt, weights, rand, reason) ==
  LET p == pickWeighted(weights, rand)
  IN  IF HasVariant(prompt.variants, p.key)
      THEN [ok |-> TRUE, variantId |-> p.key, reason |-> reason,
            weightPicked |-> Some(p.weight)]
      ELSE [ok |-> FALSE, error |-> "variant-not-found"]

\* Object.entries(prompt.variants).find(([, v]) => v.default === true)
HardDefault(prompt) ==
  LET defaults == {i \in 1..Len(prompt.variants) : prompt.variants[i].default}
  IN  IF defaults = {}
      THEN [ok |-> FALSE, error |-> "no-default-variant"]
      ELSE [ok |-> TRUE, variantId |-> prompt.variants[Min(defaults)].id,
            reason |-> "default", weightPicked |-> Absent]

\* selectVariant with the untagged rules consulted before the phased layer
selectVariantWeightsFirst(prompt, userId, tags, now, digest, random) ==
  LET rules        == prompt.routing.rules
      tagRules     == TagRules(rules, tags)
      currentPhase == CurrentPhase(prompt.routing.phased, now)
      defaultRules == DefaultRules(rules)
      rand         == deterministicRandom(userId, digest, random)
  IN  IF tagRules # <<>>
      THEN Picked(prompt, BuildWeightMap(tagRules, Len(tagRules)), rand,
                  "tag-match")
      ELSE IF defaultRules # <<>>
      THEN Picked(prompt, BuildWeightMap(defaultRules, Len(defaultRules)),
                  rand, "weight-distribution")
      ELSE IF currentPhase # Absent
      THEN Picked(prompt, currentPhase[1].weights, rand, "phased-rollout")
      ELSE HardDefault(prompt)

\* selectVariant with the phased layer consulted before the tag rules
selectVariantPhasedFirst(prompt, userId, tags, now, digest, random) ==
  LET rules        == prompt.routing.rules
      tagRules     == TagRules(rules, tags)
      currentPhase == CurrentPhase(prompt.routing.phased, now)
      defaultRules == DefaultRules(rules)
      rand         == deterministicRandom(userId, digest, random)
  IN  IF currentPhase # Absent
      THEN Picked(prompt, currentPhase[1].weights, rand, "phased-rollout")
      ELSE IF tagRules # <<>>
      THEN Picked(prompt, BuildWeightMap(tagRules, Len(tagRules)), rand,
                  "tag-match")
      ELSE IF defaultRules # <<>>
      THEN Picked(prompt, BuildWeightMap(defaultRules, Len(defaultRules)),
                  rand, "weight-distribution")
      ELSE HardDefault(prompt)

\* selectVariant: tag rules, then the current phase, then untagged rules,
\* then the default variant. digest is the digest prefix of
\* "userId:promptId:salt" for the salt of the layer that picks.
selectVariant(prompt, userId, tags, now, digest, random) ==
  LET rules        == prompt.routing.rules
      tagRules     == TagRules(rules, tags)
      currentPhase == CurrentPhase(prompt.routing.phased, now)
      defaultRules == DefaultRules(rules)
      rand         == deterministicRandom(userId, digest, random)
  IN  IF tagRules # <<>>
      THEN Picked(prompt, BuildWeightMap(tagRules, Len(tagRules)), rand,
                  "tag-match")
      ELSE IF currentPhase # Absent
      THEN Picked(prompt, currentPhase[1].weights, rand, "phased-rollout")
      ELSE IF defaultRules # <<>>
      THEN Picked(prompt, BuildWeightMap(defaultRules, Len(defaultRules)),
                  rand, "weight-distribution")
      ELSE HardDefault(prompt)

\* the salt of the layer that picks: 'tag', 'phase' or 'weight'
SaltOf(prompt, tags, now) ==
  IF TagRules(prompt.routing.rules, tags) # <<>> THEN "tag"
  ELSE IF CurrentPhase(prompt.routing.phased, now) # Absent THEN "phase"
  ELSE "weight"

----------------------------------------------------------------------------
(* utils/fallbackExecutor.ts *)

\* Disposition that moves on after a ProviderError that is not retryable
DispositionRetryAll(outcome) ==
  IF outcome.type = "ok" THEN "return"
  ELSE IF outcome.type = "ProviderError" THEN "continue"
  ELSE "throw"

\* Disposition that moves on to the next target after a result
DispositionIgnoreSuccess(outcome) ==
  IF outcome.type = "ok" THEN "continue"
  ELSE IF outcome.type = "ProviderError"
       THEN IF ~outcome.retryable THEN "throw" ELSE "continue"
       ELSE "throw"

\* Disposition that treats an unknown error like a retryable one
DispositionSwallowUnknown(outcome) ==
  IF outcome.type = "ok" THEN "return"
  ELSE IF outcome.type = "ProviderError"
       THEN IF ~outcome.retryable THEN "throw" ELSE "continue"
       ELSE "continue"

\* What one loop iteration does with the outcome of `await attempt(...)`:
\* a result is returned; a ProviderError that is not retryable, and any
\* other error, is thrown at once; a retryable ProviderError moves on.
Disposition(outcome) ==
  IF outcome.type = "ok" THEN "return"
  ELSE IF outcome.type = "ProviderError"
       THEN IF ~outcome.retryable THEN "throw" ELSE "continue"
       ELSE "throw"

\* onAttempt is called for a result and for every ProviderError, not for
\* other errors
NotifiesOnAttempt(outcome) == outcome.type \in {"ok", "ProviderError"}

\* lastError ??= err: the first error is kept
StoreLastErrorKeepFirst(lastError, err) ==
  IF lastError # NoError THEN lastError ELSE err

\* lastError = err
StoreLastError(lastError, err) == err

\* the loop header: the target after position i
NextTarget(i) == i + 1

\* after the loop: if (lastError) throw lastError; throw new Error(...)
ExhaustedError(lastError) ==
  IF lastError # NoError THEN lastError
  ELSE [type |-> "Error", reason |-> None, retryable |-> FALSE, at |-> 0,
        origin |-> "exhausted"]

----------------------------------------------------------------------------
(* utils/observabilityBuilder.ts *)

\* new ObservabilityBuilder({variantId: 'unknown', routingReason: 'default'})
NewBuilder ==
  [variantId |-> "unknown", routingReason |-> "default", provider |-> None,
   model |-> None, fallbacks |-> <<>>]

setVariantId(b, id) == [b EXCEPT !.variantId = id]

setRouting(b, reason) == [b EXCEPT !.routingReason = reason]

setProvider(b, type, model) == [b EXCEPT !.provider = type, !.model = model]

\* addFallbackAttempt that puts the new entry in front
addFallbackAttemptPrepend(b, attempt) ==
  [b EXCEPT !.fallbacks = <<attempt>> \o @]

addFallbackAttempt(b, attempt) ==
  [b EXCEPT !.fallbacks = Append(@, attempt)]

OrUnknown(x) == IF x = None THEN "unknown" ELSE x

\* the event of buildSuccess
buildSuccess(b) ==
  [success |-> TRUE, variantId |-> b.variantId,
   routingReason |-> b.routingReason, provider |-> OrUnknown(b.provider),
   model |-> OrUnknown(b.model), fallbackUsed |-> Len(b.fallbacks) > 0,
   fallbacks |-> b.fallbacks, errorType |-> None]

\* the event of buildError
buildError(b, error) ==
  [success |-> FALSE, variantId |-> b.variantId,
   routingReason |-> b.routingReason, provider |-> OrUnknown(b.provider),
   model |-> OrUnknown(b.model), fallbackUsed |-> Len(b.fallbacks) > 0,
   fallbacks |-> b.fallbacks, errorType |-> error.type]

----------------------------------------------------------------------------
(* Promptuna.ts *)

ProviderTypes == {"openai", "anthropic", "google"}

\* config.providers of the drawn configurations: alias -> type
ProviderAliases == {"p_openai", "p_anthropic"}

ProviderCfg(alias) ==
  IF alias = "p_openai" THEN "openai"
  ELSE IF alias = "p_anthropic" THEN "anthropic"
  ELSE None

\* getProvider without the this.providers.has(type) fast path
getProviderUncached(type, cache, keys) ==
  IF type \in ProviderTypes /\ type \in keys
  THEN [ok |-> TRUE, cache |-> cache \cup {type}, created |-> TRUE]
  ELSE [ok |-> FALSE, cache |-> cache, created |-> FALSE]

\* getProvider: the cached instance, a new instance when the key of the
\* type is configured, a thrown Error otherwise
getProvider(type, cache, keys) ==
  IF type \in cache THEN [ok |-> TRUE, cache |-> cache, created |-> FALSE]
  ELSE IF type \in ProviderTypes /\ type \in keys
       THEN [ok |-> TRUE, cache |-> cache \cup {type}, created |-> TRUE]
       ELSE [ok |-> FALSE, cache |-> cache, created |-> FALSE]

\* [...fallbackTargets, primaryTarget]
TargetChainFallbackFirst(variant) ==
  [i \in 1..Len(variant.fallback) |->
     [providerId |-> variant.fallback[i].provider,
      model |-> variant.fallback[i].model]]
    \o <<[providerId |-> variant.provider, model |-> variant.model]>>

\* [primaryTarget, ...fallbackTargets]
TargetChain(variant) ==
  <<[providerId |-> variant.provider, model |-> variant.model]>>
    \o [i \in 1..Len(variant.fallback) |->
          [providerId |-> variant.fallback[i].provider,
           model |-> variant.fallback[i].model]]

\* the .map that adds providerType to each target
EnrichTargets(chain) ==
  [i \in 1..Len(chain) |->
     [providerId |-> chain[i].providerId, model |-> chain[i].model,
      providerType |-> ProviderCfg(chain[i].providerId)]]

\* this.configPromise: null, or a promise that is pending, fulfilled or
\* rejected
NoPromise == [state |-> "null"]

\* the template strings of the drawn variants' messages
Templates == {"Hello {{name}}", "Bye"}

\* getConfig that starts a load whenever this.config is still null
getConfigNoJoin(cfg, promise) ==
  IF cfg # 0 THEN "cached" ELSE "load"

\* getConfig up to its return: the cached Config, a new load, or the
\* promise of the load already started
getConfig(cfg, promise) ==
  IF cfg # 0 THEN "cached"
  ELSE IF promise.state = "null" THEN "load"
  ELSE "join"

\* processTemplate that parses and stores on every call
processTemplateReparse(cache, template, serial) ==
  [cache EXCEPT ![template] = serial]

\* processTemplate's cache lookup: an entry is parsed and stored only when
\* the template has none; serial names the parse result that would be stored
processTemplate(cache, template, serial) ==
  IF cache[template] # 0 THEN cache
  ELSE [cache EXCEPT ![template] = serial]

\* TemplateProcessor.clearCache
clearCache(cache) == [t \in DOMAIN cache |-> 0]

\* the ExecutionError thrown by the catch block
WrapError(error, vId, provider) ==
  [type |-> "ExecutionError", variantId |-> vId, provider |-> provider,
   errorType |-> error.type, cause |-> error]

----------------------------------------------------------------------------
(* State *)

VARIABLES
  pc,               \* where the call stands
  prompt,           \* the prompt selected from (config.prompts[promptId])
  promptId,         \* params.promptId
  userId,           \* params.userId, None when absent
  tags,             \* params.tags
  now,              \* params.unixTime / params.now
  digest,           \* digest prefix of "userId:promptId:salt"
  selection,        \* what selectVariant returned or threw
  fileOk,           \* does loadConfigFile accept the file at configPath
  apiKeys,          \* provider types whose API key is in runtimeConfig
  sinkSet,          \* is runtimeConfig.onObservability set
  providers,        \* this.providers: the types with a cached instance
  obsBuilder,       \* the call's ObservabilityBuilder
  variantId,        \* chatCompletion's local variantId
  lastProviderType, \* chatCompletion's local lastProviderType
  targets,          \* the executor's target list
  idx,              \* position of the executor's loop in targets
  lastError,        \* the executor's lastError
  attempts,         \* the attemptFn invocations so far, in order
  execResult,       \* how executeWithFallback ended
  caught,           \* the error the catch block received
  events,           \* the events handed to the sink, in order
  result,           \* how chatCompletion ended for its caller
  sha,              \* the digest prefix of "userId:promptId:salt", per user and salt
  calls,            \* the selectVariant calls made so far, with what they returned
  config,           \* this.config: 0 for null, else the read that produced it
  configPromise,    \* this.configPromise
  reads,            \* how often loadConfigFile has been called
  callers,          \* the getTemplate/chatCompletion calls on the instance
  paths,            \* the ways getConfig has served a caller so far
  served,           \* the Config objects getConfig has handed out
  created,          \* provider instances constructed so far, per type
  handed,           \* the provider instances given to attempts
  templateCache,    \* templateProcessor.templateCache: 0 for no entry
  parses,           \* how often liquid.parse has produced a cache entry
  clears,           \* how often clearCache has been called
  candidate,        \* the parsed config file handed to a validator or loader
  accepted,         \* which of them has returned the config, which has thrown
  sdkError,         \* what a provider SDK call has thrown inside an adapter
  providerError,    \* the ProviderError the adapter threw for it
  canonical,        \* a provider type and the variant parameters to map
  out               \* what buildProviderParams returned for them

vars == <<pc, prompt, promptId, userId, tags, now, digest, selection, fileOk,
          apiKeys, sinkSet, providers, obsBuilder, variantId,
          lastProviderType, targets, idx, lastError, attempts, execResult,
          caught, events, result, sha, calls, config, configPromise, reads,
          callers, paths, served, created, handed, templateCache, parses,
          clears, candidate, accepted, sdkError, providerError, canonical,
          out>>

repeatVars == <<sha, calls>>

checkVars == <<candidate, accepted, sdkError, providerError, canonical, out>>

cacheVars == <<config, configPromise, reads, callers, paths, served, created,
               handed, templateCache, parses, clears>>

requestVars == <<prompt, promptId, userId, tags, now, digest, fileOk,
                 apiKeys, sinkSet>>

execVars == <<targets, idx, lastError, attempts, execResult>>

----------------------------------------------------------------------------
(* Inputs *)

SeqsUpTo(S, n) == UNION {[1..k -> S] : k \in 0..n}

TagSets == {{}, {"beta"}}

Times == {1, 2, 3}

Rule(target, weight, ruleTags) ==
  [target |-> target, weight |-> weight, tags |-> ruleTags]

\* rules with and without a weight, with and without tags
RuleSet ==
  { Rule("v_a", Absent, {}), Rule("v_a", Some(0), {}),
    Rule("v_b", Absent, {}), Rule("v_b", Some(0), {}),
    Rule("v_b", Absent, {"beta"}), Rule("v_a", Some(0), {"beta"}) }

EvenSplit ==
  <<[key |-> "v_a", weight |-> 50], [key |-> "v_b", weight |-> 50]>>

ZeroFirst ==
  <<[key |-> "v_b", weight |-> 0], [key |-> "v_a", weight |-> 100]>>

Phase(start, end, weights) ==
  [start |-> start, end |-> end, weights |-> weights]

\* open and closed windows; two entries share start 1, two share start 2
PhaseSet ==
  { Phase(1, Absent, EvenSplit), Phase(1, Some(2), ZeroFirst),
    Phase(2, Absent, ZeroFirst), Phase(2, Some(2), EvenSplit) }

PrimaryTargets ==
  { [provider |-> "p_openai", model |-> "gpt-4"],
    [provider |-> "p_anthropic", model |-> "claude"] }

\* the loader does not check fallback providers: p_missing is no key of
\* config.providers
FallbackTargets ==
  PrimaryTargets \cup {[provider |-> "p_missing", model |-> "ghost"]}

Variant(id, isDefault, primary, fallback) ==
  [id |-> id, default |-> isDefault, provider |-> primary.provider,
   model |-> primary.model, fallback |-> fallback]

\* the variants of the prompts selectVariant is tried on
RouteVariants ==
  << Variant("v_a", TRUE, [provider |-> "p_openai", model |-> "gpt-4"], <<>>),
     Variant("v_b", FALSE, [provider |-> "p_anthropic", model |-> "claude"],
             <<>>) >>

RoutePrompts ==
  { [variants |-> RouteVariants, routing |-> [rules |-> rs, phased |-> ps]] :
      rs \in SeqsUpTo(RuleSet, MaxRules), ps \in SeqsUpTo(PhaseSet, MaxPhases) }

\* the routings of the configs chatCompletion is tried on; the loader does
\* not check rule targets: v_ghost is no variant
CallRoutings ==
  { [rules |-> <<>>, phased |-> <<>>],
    [rules |-> <<Rule("v_a", Absent, {})>>, phased |-> <<>>],
    [rules |-> <<Rule("v_b", Some(50), {"beta"}), Rule("v_a", Some(50), {})>>,
     phased |-> <<>>],
    [rules |-> <<Rule("v_ghost", Absent, {})>>, phased |-> <<>>] }

CallPrompts ==
  { [variants |->
       << Variant("v_a", TRUE, p, fb),
          Variant("v_b", FALSE, [provider |-> "p_anthropic", model |-> "claude"],
                  <<[provider |-> "p_openai", model |-> "gpt-4"]>>) >>,
     routing |-> r] :
      p \in PrimaryTargets, fb \in SeqsUpTo(FallbackTargets, MaxFallbacks),
      r \in CallRoutings }

\* what provider.chatCompletion can do on the target at position i: a
\* response, a ProviderError as the adapters build them, or another Error
\* (the provider SDK is not installed)
Outcome(type, reason, retryable, i, origin) ==
  [type |-> type, reason |-> reason, retryable |-> retryable, at |-> i,
   origin |-> origin]

AttemptOutcomes(i) ==
  { Outcome("ok", None, FALSE, i, "attempt"),
    Outcome("ProviderError", "rate-limit", TRUE, i, "attempt"),
    Outcome("ProviderError", "timeout", TRUE, i, "attempt"),
    Outcome("ProviderError", "provider-error", FALSE, i, "attempt"),
    Outcome("Error", None, FALSE, i, "attempt") }

\* what getTemplate can do on the selected variant
RenderOutcomes == {"ok", "ExecutionError", "TemplateError"}

Thrown(type, origin) == Outcome(type, None, FALSE, 0, origin)

----------------------------------------------------------------------------
(* Initial states *)

\* a call that has not started: what the constructor and the first lines
\* of chatCompletion set
FreshCall ==
  /\ selection = NoSelection
  /\ providers = {}
  /\ obsBuilder = NewBuilder
  /\ variantId = "unknown"
  /\ lastProviderType = "unknown"
  /\ targets = <<>>
  /\ idx = 0
  /\ lastError = NoError
  /\ attempts = <<>>
  /\ execResult = NoResult
  /\ caught = NoError
  /\ events = <<>>
  /\ result = NoResult

\* a fresh orchestrator instance: the field initialisers and the constructor
FreshInstance ==
  /\ config = 0
  /\ configPromise = NoPromise
  /\ reads = 0
  /\ paths = {}
  /\ served = {}
  /\ created = [t \in ProviderTypes |-> 0]
  /\ handed = {}
  /\ templateCache = [t \in Templates |-> 0]
  /\ parses = 0
  /\ clears = 0

\* no selectVariant call has been made
NoCalls == calls = {}

\* no config validated, no adapter failure normalised, no parameters mapped
NothingChecked ==
  /\ candidate = None
  /\ accepted = NoVerdict
  /\ sdkError = None
  /\ providerError = NoError
  /\ canonical = None
  /\ out = None

\* the digest only matters for a known user
Users ==
  {[userId |-> None, digest |-> <<0, 0>>]}
    \cup {[userId |-> "alice", digest |-> d] : d \in HashWords}

\* one call of selectVariant
InitRoute ==
  /\ pc = "select"
  /\ prompt \in RoutePrompts
  /\ promptId = "greeting"
  /\ \E u \in Users : userId = u.userId /\ digest = u.digest
  /\ tags \in TagSets
  /\ now \in Times
  /\ fileOk = TRUE
  /\ apiKeys = {}
  /\ sinkSet = FALSE
  /\ FreshCall
  /\ FreshInstance
  /\ callers = <<>>
  /\ sha = <<>>
  /\ NoCalls
  /\ NothingChecked

\* one call of chatCompletion on a fresh instance
Init ==
  /\ pc = "getConfig"
  /\ prompt \in CallPrompts
  /\ promptId \in {"greeting", "unknown_prompt"}
  /\ \E u \in {[userId |-> None, digest |-> <<0, 0>>],
               [userId |-> "alice", digest |-> <<65535, 65535>>]} :
       userId = u.userId /\ digest = u.digest
  /\ tags \in TagSets
  /\ now = 1
  /\ fileOk \in BOOLEAN
  /\ apiKeys \in SUBSET {"openai", "anthropic"}
  /\ sinkSet \in BOOLEAN
  /\ FreshCall
  /\ FreshInstance
  /\ callers = <<>>
  /\ sha = <<>>
  /\ NoCalls
  /\ NothingChecked

----------------------------------------------------------------------------
(* selectVariant, called on its own *)

Select ==
  /\ pc = "select"
  /\ \E random \in RandomWords :
       selection' = selectVariant(prompt, userId, tags, now, digest, random)
  /\ pc' = "selected"
  /\ UNCHANGED <<repeatVars, cacheVars, checkVars>>
  /\ UNCHANGED <<requestVars, execVars, providers, obsBuilder, variantId,
                 lastProviderType, caught, events, result>>

NextRoute == Select

SpecRoute == InitRoute /\ [][NextRoute]_vars

----------------------------------------------------------------------------
(* selectVariant, called again and again on one prompt *)

\* how many different (request, result) pairs a run collects
MaxCalls == 3

RepeatUsers == {"alice", "bob"}

RepeatTimes == {1, 3}

Salts == {"tag", "phase", "weight"}

\* digest prefixes that land in different halves of an even split
RepeatWords == {<<0, 0>>, <<32768, 0>>}

\* an even split among untagged rules; an even split among tag rules with
\* an even phase behind it
RepeatPrompts ==
  { [variants |-> RouteVariants,
     routing |-> [rules |-> <<Rule("v_a", Absent, {}), Rule("v_b", Absent, {})>>,
                  phased |-> <<>>]],
    [variants |-> RouteVariants,
     routing |-> [rules |-> <<Rule("v_b", Absent, {"beta"}),
                              Rule("v_a", Absent, {"beta"})>>,
                  phased |-> <<Phase(1, Some(2), EvenSplit)>>]] }

\* SHA-256 is a function: one digest per (userId, salt) for the promptId
InitRepeat ==
  /\ pc = "repeat"
  /\ prompt \in RepeatPrompts
  /\ promptId = "greeting"
  /\ userId = None
  /\ digest = <<0, 0>>
  /\ tags = {}
  /\ now = 1
  /\ fileOk = TRUE
  /\ apiKeys = {}
  /\ sinkSet = FALSE
  /\ FreshCall
  /\ FreshInstance
  /\ callers = <<>>
  /\ sha \in [RepeatUsers \X Salts -> RepeatWords]
  /\ NoCalls
  /\ NothingChecked

\* one more selectVariant call, for any user, tags and time; its arguments
\* and its result are kept in calls
SelectAgain ==
  /\ pc = "repeat"
  /\ Cardinality(calls) < MaxCalls
  /\ \E u \in RepeatUsers \cup {None}, tg \in TagSets, t \in RepeatTimes,
        random \in RandomWords :
       LET d   == IF u = None THEN <<0, 0>>
                  ELSE sha[<<u, SaltOf(prompt, tg, t)>>]
           sel == selectVariant(prompt, u, tg, t, d, random)
       IN  calls' = calls \cup {[userId |-> u, tags |-> tg, now |-> t,
                                 variantId |-> sel.variantId]}
  /\ UNCHANGED <<requestVars, sha, pc, selection>>
  /\ UNCHANGED checkVars
  /\ UNCHANGED <<cacheVars, execVars, providers, obsBuilder, variantId,
                 lastProviderType, caught, events, result>>

NextRepeat == SelectAgain

SpecRepeat == InitRepeat /\ [][NextRepeat]_vars

----------------------------------------------------------------------------
(* chatCompletion *)

\* the body of the try block throws: control moves to the catch block
Throw(error) ==
  /\ caught' = error
  /\ pc' = "catch"

\* const config = await this.getConfig()
GetConfig ==
  /\ pc = "getConfig"
  /\ IF fileOk
     THEN pc' = "route" /\ UNCHANGED caught
     ELSE Throw(Thrown("ConfigurationError", "getConfig"))
  /\ UNCHANGED <<repeatVars, cacheVars, checkVars>>
  /\ UNCHANGED <<requestVars, execVars, selection, providers, obsBuilder,
                 variantId, lastProviderType, events, result>>

\* the prompt lookup, selectVariant and the builder's routing setters
Route ==
  /\ pc = "route"
  /\ IF promptId # "greeting"
     THEN /\ Throw(Thrown("ExecutionError", "prompt"))
          /\ UNCHANGED <<selection, variantId, obsBuilder>>
     ELSE \E random \in RandomWords :
            LET sel == selectVariant(prompt, userId, tags, now, digest, random)
            IN  /\ selection' = sel
                /\ IF sel.ok
                   THEN /\ variantId' = sel.variantId
                        /\ obsBuilder' =
                             setRouting(setVariantId(obsBuilder, sel.variantId),
                                        sel.reason)
                        /\ pc' = "render"
                        /\ UNCHANGED caught
                   ELSE /\ Throw(Thrown("Error", "selectVariant"))
                        /\ UNCHANGED <<variantId, obsBuilder>>
  /\ UNCHANGED <<repeatVars, cacheVars, checkVars>>
  /\ UNCHANGED <<requestVars, execVars, providers, lastProviderType, events,
                 result>>

\* const messages = await this.getTemplate(...)
Render ==
  /\ pc = "render"
  /\ \E r \in RenderOutcomes :
       IF r = "ok"
       THEN pc' = "targets" /\ UNCHANGED caught
       ELSE Throw(Thrown(r, "getTemplate"))
  /\ UNCHANGED <<repeatVars, cacheVars, checkVars>>
  /\ UNCHANGED <<requestVars, execVars, selection, providers, obsBuilder,
                 variantId, lastProviderType, events, result>>

\* the target list, and the call of executeWithFallback up to its loop
BuildTargets ==
  /\ pc = "targets"
  /\ LET chain == TargetChain(GetVariant(prompt.variants, variantId))
     IN  IF \E i \in 1..Len(chain) : ProviderCfg(chain[i].providerId) = None
         THEN /\ Throw(Thrown("ExecutionError", "targets"))
              /\ UNCHANGED <<targets, idx>>
         ELSE /\ targets' = EnrichTargets(chain)
              /\ idx' = 1
              /\ pc' = "attempt"
              /\ UNCHANGED caught
  /\ UNCHANGED <<repeatVars, cacheVars, checkVars>>
  /\ UNCHANGED <<requestVars, lastError, attempts, execResult, selection,
                 providers, obsBuilder, variantId, lastProviderType, events,
                 result>>

\* the onAttempt callback chatCompletion passes to the executor
OnAttempt(b, target, outcome) ==
  IF outcome.type # "ok"
  THEN addFallbackAttempt(b, [provider |-> target.providerType,
                              model |-> target.model,
                              reason |-> outcome.reason])
  ELSE setProvider(b, target.providerType, target.model)

\* one iteration of the executor's loop
Attempt ==
  /\ pc = "attempt"
  /\ idx <= Len(targets)
  /\ LET target == targets[idx]
         gp     == getProvider(target.providerType, providers, apiKeys)
     IN  IF ~gp.ok
         THEN /\ execResult' = [kind |-> "thrown",
                                error |-> Thrown("Error", "getProvider")]
              /\ Throw(Thrown("Error", "getProvider"))
              /\ UNCHANGED <<providers, attempts, obsBuilder,
                             lastProviderType, lastError, idx>>
         ELSE /\ providers' = gp.cache
              /\ \E o \in AttemptOutcomes(idx) :
                   /\ attempts' = Append(attempts, [idx |-> idx,
                                                    target |-> target,
                                                    outcome |-> o])
                   /\ obsBuilder' = IF NotifiesOnAttempt(o)
                                    THEN OnAttempt(obsBuilder, target, o)
                                    ELSE obsBuilder
                   /\ lastProviderType' =
                        IF NotifiesOnAttempt(o) /\ o.type = "ok"
                        THEN target.providerType ELSE lastProviderType
                   /\ CASE Disposition(o) = "return" ->
                             /\ execResult' = [kind |-> "returned", value |-> o]
                             /\ pc' = "success"
                             /\ UNCHANGED <<caught, lastError, idx>>
                        [] Disposition(o) = "throw" ->
                             /\ execResult' = [kind |-> "thrown", error |-> o]
                             /\ Throw(o)
                             /\ UNCHANGED <<lastError, idx>>
                        [] Disposition(o) = "continue" ->
                             /\ lastError' = StoreLastError(lastError, o)
                             /\ idx' = NextTarget(idx)
                             /\ UNCHANGED <<pc, caught, execResult>>
  /\ UNCHANGED <<repeatVars, cacheVars, checkVars>>
  /\ UNCHANGED <<requestVars, targets, selection, variantId, events, result>>

\* the loop ran out of targets
Exhausted ==
  /\ pc = "attempt"
  /\ idx > Len(targets)
  /\ execResult' = [kind |-> "thrown", error |-> ExhaustedError(lastError)]
  /\ Throw(ExhaustedError(lastError))
  /\ UNCHANGED <<repeatVars, cacheVars, checkVars>>
  /\ UNCHANGED <<requestVars, targets, idx, lastError, attempts, selection,
                 providers, obsBuilder, variantId, lastProviderType, events,
                 result>>

\* obsBuilder.buildSuccess(); return response -- inside the try block
Success ==
  /\ pc = "success"
  /\ IF sinkSet
     THEN /\ events' = Append(events, buildSuccess(obsBuilder))
          /\ \E sinkThrows \in BOOLEAN :
               IF sinkThrows
               THEN Throw(Thrown("Error", "sink")) /\ UNCHANGED result
               ELSE /\ result' = [kind |-> "returned",
                                  value |-> execResult.value]
                    /\ pc' = "done"
                    /\ UNCHANGED caught
     ELSE /\ result' = [kind |-> "returned", value |-> execResult.value]
          /\ pc' = "done"
          /\ UNCHANGED <<events, caught>>
  /\ UNCHANGED <<repeatVars, cacheVars, checkVars>>
  /\ UNCHANGED <<requestVars, execVars, selection, providers, obsBuilder,
                 variantId, lastProviderType>>

\* the catch block: obsBuilder.buildError(error); throw new ExecutionError
Catch ==
  /\ pc = "catch"
  /\ IF sinkSet
     THEN /\ events' = Append(events, buildError(obsBuilder, caught))
          /\ \E sinkThrows \in BOOLEAN :
               result' = [kind |-> "thrown",
                          error |-> IF sinkThrows
                                    THEN Thrown("Error", "sink")
                                    ELSE WrapError(caught, variantId,
                                                   lastProviderType)]
     ELSE /\ result' = [kind |-> "thrown",
                        error |-> WrapError(caught, variantId,
                                            lastProviderType)]
          /\ UNCHANGED events
  /\ pc' = "done"
  /\ UNCHANGED <<repeatVars, cacheVars, checkVars>>
  /\ UNCHANGED <<requestVars, execVars, selection, providers, obsBuilder,
                 variantId, lastProviderType, caught>>

Next ==
  \/ GetConfig
  \/ Route
  \/ Render
  \/ BuildTargets
  \/ Attempt
  \/ Exhausted
  \/ Success
  \/ Catch

Spec == Init /\ [][Next]_vars

----------------------------------------------------------------------------
(* One orchestrator instance under concurrent getTemplate / chatCompletion *)
(* calls. Each action is one run-to-completion step between two awaits.    *)

\* concurrent calls on the instance
MaxCallers == 2
\* calls of clearCache
MaxClears == 1

Callers == 1..MaxCallers

\* no call is running in the slot
Idle == [pc |-> "idle", op |-> None]

InitCache ==
  /\ pc = "instance"
  /\ prompt \in {p \in RepeatPrompts : p.routing.phased = <<>>}
  /\ promptId = "greeting"
  /\ userId = None
  /\ digest = <<0, 0>>
  /\ tags = {}
  /\ now = 1
  /\ fileOk \in BOOLEAN
  /\ apiKeys = {"openai"}
  /\ sinkSet = FALSE
  /\ FreshCall
  /\ FreshInstance
  /\ callers = [c \in Callers |-> Idle]
  /\ sha = <<>>
  /\ NoCalls
  /\ NothingChecked

callVars == <<requestVars, repeatVars, checkVars, execVars, pc, selection,
              obsBuilder, variantId, lastProviderType, caught, events, result>>

\* a call starts and runs up to `await this.getConfig()`
StartCall(c) ==
  /\ callers[c].pc = "idle"
  /\ \E op \in {"getTemplate", "chatCompletion"} :
       LET path == getConfig(config, configPromise)
       IN  /\ paths' = paths \cup {path}
           /\ CASE path = "cached" ->
                     /\ served' = served \cup {config}
                     /\ callers' = [callers EXCEPT ![c] =
                                      [pc |-> "render", op |-> op]]
                     /\ UNCHANGED <<configPromise, reads>>
                [] path = "load" ->
                     /\ reads' = reads + 1
                     /\ configPromise' = [state |-> "pending",
                                          serial |-> reads + 1]
                     /\ callers' = [callers EXCEPT ![c] =
                                      [pc |-> "awaitConfig", op |-> op]]
                     /\ UNCHANGED served
                [] path = "join" ->
                     /\ callers' = [callers EXCEPT ![c] =
                                      [pc |-> "awaitConfig", op |-> op]]
                     /\ UNCHANGED <<configPromise, reads, served>>
  /\ UNCHANGED <<config, created, handed, templateCache, parses, clears,
                 providers>>
  /\ UNCHANGED callVars

\* loadConfigFile settles; on success the .then callback stores the Config
LoadSettles ==
  /\ configPromise.state = "pending"
  /\ IF fileOk
     THEN /\ config' = configPromise.serial
          /\ configPromise' = [configPromise EXCEPT !.state = "fulfilled"]
     ELSE /\ configPromise' = [configPromise EXCEPT !.state = "rejected"]
          /\ UNCHANGED config
  /\ UNCHANGED <<reads, callers, paths, served, created, handed,
                 templateCache, parses, clears, providers>>
  /\ UNCHANGED callVars

\* a caller's `await this.getConfig()` resumes: with the Config, or with
\* the rejection, which ends the call
ResumeCall(c) ==
  /\ callers[c].pc = "awaitConfig"
  /\ configPromise.state \in {"fulfilled", "rejected"}
  /\ IF configPromise.state = "fulfilled"
     THEN /\ served' = served \cup {configPromise.serial}
          /\ callers' = [callers EXCEPT ![c].pc = "render"]
     ELSE /\ callers' = [callers EXCEPT ![c] = Idle]
          /\ UNCHANGED served
  /\ UNCHANGED <<config, configPromise, reads, paths, created, handed,
                 templateCache, parses, clears, providers>>
  /\ UNCHANGED callVars

\* getTemplate renders a message: processTemplate on its template; a
\* getTemplate call ends here
RenderCall(c) ==
  /\ callers[c].pc = "render"
  /\ \E t \in Templates :
       LET cache == processTemplate(templateCache, t, parses + 1)
       IN  /\ templateCache' = cache
           /\ parses' = IF cache # templateCache THEN parses + 1 ELSE parses
  /\ callers' = [callers EXCEPT ![c] =
                   IF callers[c].op = "chatCompletion"
                   THEN [@ EXCEPT !.pc = "attempt"]
                   ELSE Idle]
  /\ UNCHANGED <<config, configPromise, reads, paths, served, created,
                 handed, clears, providers>>
  /\ UNCHANGED callVars

\* one iteration of the executor's loop in a chatCompletion call: the
\* provider of the target's type is fetched and given to the attempt; the
\* call ends unless the attempt fails retryably and a target is left
AttemptCall(c) ==
  /\ callers[c].pc = "attempt"
  /\ \E type \in {"openai", "anthropic"} :
       LET gp == getProvider(type, providers, apiKeys)
       IN  IF ~gp.ok
           THEN /\ callers' = [callers EXCEPT ![c] = Idle]
                /\ UNCHANGED <<providers, created, handed>>
           ELSE /\ providers' = gp.cache
                /\ created' = [created EXCEPT ![type] =
                                 IF gp.created THEN @ + 1 ELSE @]
                /\ handed' = handed \cup {<<c, type, created'[type]>>}
                /\ \E o \in AttemptOutcomes(1), targetLeft \in BOOLEAN :
                     callers' = [callers EXCEPT ![c] =
                       IF Disposition(o) = "continue" /\ targetLeft
                       THEN @ ELSE Idle]
  /\ UNCHANGED <<config, configPromise, reads, paths, served,
                 templateCache, parses, clears>>
  /\ UNCHANGED callVars

\* the template processor's owner calls clearCache
ClearCache ==
  /\ clears < MaxClears
  /\ templateCache' = clearCache(templateCache)
  /\ clears' = clears + 1
  /\ UNCHANGED <<config, configPromise, reads, callers, paths, served,
                 created, handed, parses, providers>>
  /\ UNCHANGED callVars

NextCache ==
  \/ \E c \in Callers : StartCall(c)
  \/ LoadSettles
  \/ \E c \in Callers : ResumeCall(c)
  \/ \E c \in Callers : RenderCall(c)
  \/ \E c \in Callers : AttemptCall(c)
  \/ ClearCache

SpecCache == InitCache /\ [][NextCache]_vars
----------------------------------------------------------------------------
(* The fallback executor: C1 - C5 *)

IsRetryableFailure(o) == o.type = "ProviderError" /\ o.retryable

ExecutorEnded == execResult # NoResult

\* getProvider threw before attemptFn could be called on the target
EndedInGetProvider ==
  execResult.kind = "thrown" /\ execResult.error.origin = "getProvider"

\* C1: when attemptFn was given every target and failed on each with a
\* retryable ProviderError, it was invoked exactly Len(targets) times, once
\* per target, and the executor threw the error of the last target.
C1_FallbackExhaustion ==
  ( /\ ExecutorEnded
    /\ ~EndedInGetProvider
    /\ \A i \in DOMAIN attempts : IsRetryableFailure(attempts[i].outcome) )
  => /\ Len(attempts) = Len(targets)
     /\ \A i \in DOMAIN attempts : attempts[i].idx = i
     /\ execResult = [kind |-> "thrown",
                      error |-> attempts[Len(attempts)].outcome]

C1_Witness ==
  /\ pc = "done"
  /\ Len(targets) >= 2
  /\ Len(attempts) = Len(targets)
  /\ \A i \in DOMAIN attempts : IsRetryableFailure(attempts[i].outcome)
  /\ attempts[1].outcome.reason = "timeout"
  /\ attempts[Len(attempts)].outcome.reason = "rate-limit"
  /\ execResult.kind = "thrown"
  /\ execResult.error.at = Len(targets)

\* C2: when the primary's attempt fails with a ProviderError that is not
\* retryable, attemptFn has been invoked once in total and the executor
\* threw that error, whatever fallbacks are listed.
C2_NonRetryableShortCircuit ==
  ( /\ attempts # <<>>
    /\ attempts[1].outcome.type = "ProviderError"
    /\ ~attempts[1].outcome.retryable )
  => /\ Len(attempts) = 1
     /\ execResult = [kind |-> "thrown", error |-> attempts[1].outcome]

C2_Witness ==
  /\ pc = "done"
  /\ Len(targets) = 3
  /\ Len(attempts) = 1
  /\ attempts[1].outcome.type = "ProviderError"
  /\ ~attempts[1].outcome.retryable
  /\ execResult.kind = "thrown"
  /\ execResult.error.at = 1

\* C3: an attempt that succeeds after only retryable failures is the last
\* attempt, it is the attempt on the target at its own position in the
\* list, and the executor returned its result.
C3_FirstSuccessReturned ==
  \A k \in DOMAIN attempts :
    ( /\ attempts[k].outcome.type = "ok"
      /\ \A j \in 1..(k - 1) : IsRetryableFailure(attempts[j].outcome) )
    => /\ Len(attempts) = k
       /\ attempts[k].idx = k
       /\ execResult = [kind |-> "returned", value |-> attempts[k].outcome]

C3_Witness ==
  /\ pc = "done"
  /\ Len(targets) = 3
  /\ Len(attempts) = 2
  /\ IsRetryableFailure(attempts[1].outcome)
  /\ attempts[2].outcome.type = "ok"
  /\ execResult.kind = "returned"
  /\ execResult.value.at = 2

\* C4: an attempt that throws something other than a ProviderError is the
\* last attempt and the executor threw that very error, whatever happened
\* on the targets before it.
C4_UnknownErrorRethrown ==
  \A k \in DOMAIN attempts :
    attempts[k].outcome.type = "Error"
    => /\ Len(attempts) = k
       /\ execResult = [kind |-> "thrown", error |-> attempts[k].outcome]

C4_Witness ==
  /\ pc = "done"
  /\ Len(targets) = 3
  /\ Len(attempts) = 2
  /\ IsRetryableFailure(attempts[1].outcome)
  /\ attempts[2].outcome.type = "Error"
  /\ execResult.kind = "thrown"
  /\ execResult.error.at = 2

\* C5: the targets attempted in a chatCompletion call are, in order, the
\* selected variant's own provider/model and then its fallback entries:
\* attempt i is on position i of that chain, so no position is tried twice
\* and there are never more attempts than the chain is long.
C5_AttemptsArePrefixOfChain ==
  attempts # <<>> =>
    LET variant == GetVariant(prompt.variants, variantId)
    IN  /\ Len(attempts) <= 1 + Len(variant.fallback)
        /\ \A i \in DOMAIN attempts :
             /\ attempts[i].idx = i
             /\ attempts[i].target.providerId =
                  (IF i = 1 THEN variant.provider
                   ELSE variant.fallback[i - 1].provider)
             /\ attempts[i].target.model =
                  (IF i = 1 THEN variant.model
                   ELSE variant.fallback[i - 1].model)

C5_Witness ==
  /\ pc = "done"
  /\ Len(attempts) = 3
  /\ attempts[1].target.providerId = "p_openai"
  /\ attempts[2].target.providerId = "p_anthropic"
  /\ attempts[3].target.providerId = "p_openai"
  /\ Len(GetVariant(prompt.variants, variantId).fallback) = 2

----------------------------------------------------------------------------
(* Telemetry emission: C6 - C8 *)

\* C6: with onObservability set, a finished chatCompletion call has handed
\* exactly one event to the sink.
C6_ExactlyOneEvent ==
  (pc = "done" /\ sinkSet) => Len(events) = 1

\* C7: every event emitted for a finished call has success = TRUE exactly
\* when the call returned a response, and success = FALSE exactly when it
\* threw.
C7_SuccessMatchesOutcome ==
  (pc = "done" /\ sinkSet) =>
    \A i \in DOMAIN events :
      events[i].success <=> (result.kind = "returned")

\* C8: once the executor has returned a provider response, the call
\* returns that response to its caller, also when the sink throws while the
\* success event is emitted.
C8_SinkFailureIsolated ==
  (pc = "done" /\ execResult.kind = "returned") =>
    result = [kind |-> "returned", value |-> execResult.value]

----------------------------------------------------------------------------
(* Routing priority: C9, C10 *)

TagRuleMatches ==
  \E i \in DOMAIN prompt.routing.rules :
    prompt.routing.rules[i].tags \cap tags # {}

PhaseCoversNow ==
  \E i \in DOMAIN prompt.routing.phased :
    LET p == prompt.routing.phased[i]
    IN  p.start <= now /\ (p.end = Absent \/ now <= p.end[1])

UntaggedRuleExists ==
  \E i \in DOMAIN prompt.routing.rules : prompt.routing.rules[i].tags = {}

UntaggedRuleWithWeight ==
  \E i \in DOMAIN prompt.routing.rules :
    LET r == prompt.routing.rules[i]
    IN  r.tags = {} /\ (r.weight = Absent \/ r.weight[1] > 0)

\* the validator's non-degeneracy rule: some rule has weight > 0
SomeRuleHasWeight ==
  \E i \in DOMAIN prompt.routing.rules :
    LET r == prompt.routing.rules[i]
    IN  r.weight = Absent \/ r.weight[1] > 0

C10_DefaultWithoutWeightedRule ==
  (pc = "selected" /\ SomeRuleHasWeight) =>
    /\ (~TagRuleMatches /\ ~PhaseCoversNow /\ ~UntaggedRuleWithWeight)
         => (selection.ok /\ selection.reason = "default"
             /\ selection.variantId = "v_a")
    /\ (selection.ok /\ selection.reason = "weight-distribution")
         => UntaggedRuleWithWeight

----------------------------------------------------------------------------
(* Routing determinism, phases and buckets: C11 - C13 *)

\* C11: two selectVariant calls on the same prompt for the same user, tags
\* and time return the same variantId, whatever calls for other users,
\* tags or times were made in between.
C11_SameRequestSameVariant ==
  \A a \in calls : \A b \in calls :
    ( /\ a.userId # None
      /\ a.userId = b.userId
      /\ a.tags = b.tags
      /\ a.now = b.now )
    => a.variantId = b.variantId

C11_Witness ==
  /\ Cardinality(calls) = MaxCalls
  /\ \E a \in calls : \E b \in calls :
       /\ a.userId = "alice" /\ b.userId = "bob"
       /\ a.tags = b.tags /\ a.now = b.now
       /\ a.variantId # b.variantId
  /\ \E a \in calls : a.userId = None

\* the phased entries whose window holds now, both ends included
CoveringEntries ==
  {i \in DOMAIN prompt.routing.phased :
     LET p == prompt.routing.phased[i]
     IN  p.start <= now /\ (p.end = Absent \/ now <= p.end[1])}

\* the covering entry of greatest start, the first listed among equals
GreatestStartEntry ==
  CHOOSE i \in CoveringEntries :
    \A j \in CoveringEntries :
      \/ prompt.routing.phased[j].start < prompt.routing.phased[i].start
      \/ /\ prompt.routing.phased[j].start = prompt.routing.phased[i].start
         /\ i <= j

\* the selection's key and weight are an entry of the weight map of phase i
PickedFromPhase(i) ==
  \E k \in DOMAIN prompt.routing.phased[i].weights :
    LET e == prompt.routing.phased[i].weights[k]
    IN  selection.variantId = e.key /\ selection.weightPicked = Some(e.weight)

\* C12: when no tag rule matches, the phased layer picks from the covering
\* entry of greatest start (start <= now <= end, a missing end unbounded),
\* the first listed among covering entries that share that start; with no
\* covering entry the reason is never phased-rollout.
C12_PhaseSelection ==
  (pc = "selected" /\ ~TagRuleMatches) =>
    IF CoveringEntries = {}
    THEN selection.ok => selection.reason # "phased-rollout"
    ELSE /\ selection.ok
         /\ selection.reason = "phased-rollout"
         /\ PickedFromPhase(GreatestStartEntry)

C12_Witness ==
  /\ pc = "selected"
  /\ ~TagRuleMatches
  /\ CoveringEntries = {1, 2}
  /\ prompt.routing.phased[1].start = prompt.routing.phased[2].start
  /\ prompt.routing.phased[1].end = Some(now)
  /\ prompt.routing.phased[1].weights # prompt.routing.phased[2].weights
  /\ selection.reason = "phased-rollout"
  /\ PickedFromPhase(1)
  /\ ~PickedFromPhase(2)

\* C13: for a known user the bucket value r = num / den of the weighted
\* pick satisfies 0 <= r < 1.
C13_BucketBelowOne ==
  (pc = "selected" /\ userId # None) =>
    LET r == deterministicRandom(userId, digest, <<0, 0>>)
    IN  Less(r.num, r.den)

----------------------------------------------------------------------------
(* Caches of one instance: C14 - C16 *)

\* C14: however many calls start before or after the first load completes,
\* loadConfigFile is called at most once, and every caller that got a
\* Config got the one that single load produced.
C14_ConfigReadOnce ==
  /\ reads <= 1
  /\ served \subseteq {1}

C14_Witness ==
  /\ reads = 1
  /\ paths = {"load", "join", "cached"}
  /\ served = {1}
  /\ config = 1
  /\ \A c \in Callers : callers[c].pc = "render"

\* C15: at most one provider instance is ever constructed per type, and
\* every attempt on that type, of whatever call, is given that instance.
C15_OneProviderPerType ==
  /\ \A t \in ProviderTypes : created[t] <= 1
  /\ \A h \in handed : h[3] = 1

C15_Witness ==
  /\ created["openai"] = 1
  /\ \A c \in Callers : <<c, "openai", 1>> \in handed
  /\ \E c \in Callers : callers[c].pc = "attempt"

----------------------------------------------------------------------------
(* Errors and fallback telemetry of chatCompletion: C17 - C20 *)

CallFailed == pc = "done" /\ result.kind = "thrown"

\* the call failed on a provider attempt: the catch block received the
\* ProviderError of an attempt
FailedOnAttempt ==
  /\ CallFailed
  /\ caught.origin = "attempt"
  /\ caught.type = "ProviderError"

\* C17: a chatCompletion call that fails throws an ExecutionError, whatever
\* the cause.
C17_AlwaysExecutionError ==
  CallFailed => result.error.type = "ExecutionError"

\* C18: when the call fails on a provider attempt, the ExecutionError it
\* throws names in its details the provider of the target whose attempt
\* failed, and carries the original error.
C18_DetailsNameProvider ==
  (FailedOnAttempt /\ result.error.type = "ExecutionError") =>
    /\ result.error.provider = targets[caught.at].providerType
    /\ result.error.errorType = caught.type
    /\ result.error.cause = caught

\* the executor reached position k: every target before it was attempted
Reached(k) == k \in 1..Len(targets) /\ Len(attempts) >= k - 1 /\ idx >= k

KeyMissing(k) == targets[k].providerType \notin apiKeys

\* C19: a finished call failed in getProvider only at a reached target
\* whose type has no API key; and when the loop reaches such a target, the
\* call throws an ExecutionError and attemptFn is never called on it.
C19_MissingKeyOnlyWhenReached ==
  pc = "done" =>
    /\ (caught # NoError /\ caught.origin = "getProvider")
         => (Reached(idx) /\ KeyMissing(idx) /\ Len(attempts) = idx - 1)
    /\ \A k \in 1..Len(targets) :
         (Reached(k) /\ KeyMissing(k) /\ Len(attempts) = k - 1 /\ idx = k)
         => /\ result.kind = "thrown"
            /\ result.error.type = "ExecutionError"
            /\ \A i \in DOMAIN attempts : attempts[i].idx # k

\* the fallbacks list the claim describes: the failed attempts in order
FailedAttempts ==
  [i \in 1..(Len(attempts) - 1) |->
     [provider |-> attempts[i].target.providerType,
      model |-> attempts[i].target.model,
      reason |-> attempts[i].outcome.reason]]

\* C20: a call that succeeds on its last attempt after retryable failures
\* returns that attempt's response and has emitted one event with
\* success = TRUE, fallbackUsed exactly when an attempt failed before, and
\* the failed attempts, in order and with their reasons, as fallbacks.
C20_FallbackTelemetry ==
  (pc = "done" /\ result.kind = "returned" /\ sinkSet) =>
    LET k == Len(attempts)
    IN  /\ \A i \in 1..(k - 1) : IsRetryableFailure(attempts[i].outcome)
        /\ result.value = attempts[k].outcome
        /\ Len(events) = 1
        /\ events[1].success
        /\ events[1].fallbackUsed = (k > 1)
        /\ events[1].fallbacks = FailedAttempts

C20_Witness ==
  /\ pc = "done"
  /\ result.kind = "returned"
  /\ sinkSet
  /\ Len(attempts) = 2
  /\ attempts[1].outcome.reason = "rate-limit"
  /\ attempts[2].outcome.type = "ok"
  /\ events[1].success
  /\ events[1].fallbackUsed
  /\ Len(events[1].fallbacks) = 1
  /\ events[1].fallbacks[1].reason = "rate-limit"

----------------------------------------------------------------------------
(* Which failures enter the fallbacks list: C21 *)

\* the attempts of the call that failed with a retryable ProviderError
RetryableFailures ==
  { i \in DOMAIN attempts : IsRetryableFailure(attempts[i].outcome) }

\* C21: an event's fallbacks list has one entry per attempt that failed
\* with a retryable ProviderError and none for any other failure; a call
\* whose primary attempt fails terminally emits an event with no fallbacks
\* and fallbackUsed = FALSE.
C21_FallbacksOnlyRetryable ==
  (pc = "done" /\ Len(events) = 1) =>
    /\ Len(events[1].fallbacks) = Cardinality(RetryableFailures)
    /\ (/\ Len(attempts) = 1
        /\ attempts[1].outcome.type = "ProviderError"
        /\ ~attempts[1].outcome.retryable)
       => (events[1].fallbacks = <<>> /\ ~events[1].fallbackUsed)

----------------------------------------------------------------------------
(* Config validation: validate/ConfigValidator.ts, validation/index.ts and *)
(* the ConfigLoader of config/types.ts                                     *)

\* what every object built by JSON.parse inherits from Object.prototype:
\* obj[key] finds these members too, and they are truthy
ObjectPrototype == {"constructor"}

\* obj[key] is truthy, for an object with the own keys `keys`, all of
\* them holding objects
Lookup(keys, key) == key \in keys \cup ObjectPrototype

\* getMajorVersion: the first number of X.Y.Z, 0 when the string is no
\* semantic version
getMajorVersion(version) ==
  IF version = "1.0.0" THEN 1
  ELSE IF version = "2.0.0" THEN 2
  ELSE 0

SUPPORTED_SCHEMA_VERSIONS == {"1.0.0"}

isSchemaVersionSupported(version) ==
  \E supported \in SUPPORTED_SCHEMA_VERSIONS :
    getMajorVersion(supported) = getMajorVersion(version)

\* ConfigValidator.validateVersion: X.Y.Z with a supported major version
validateVersion(cfg) ==
  /\ getMajorVersion(cfg.version) # 0
  /\ getMajorVersion(cfg.version) \in {1}

\* ConfigLoader.checkSchemaVersion and validateVersion of validation/index.ts
checkSchemaVersion(cfg) ==
  /\ getMajorVersion(cfg.version) # 0
  /\ isSchemaVersionSupported(cfg.version)

\* the cross-field part of the config's JSON Schema: rules has at least
\* one item, a json_schema responseFormat has a schemaRef
validateSchema(cfg) ==
  /\ Len(cfg.prompt.routing.rules) >= 1
  /\ \A i \in DOMAIN cfg.prompt.variants :
       cfg.prompt.variants[i].responseFormat.type = "json_schema"
         => cfg.prompt.variants[i].responseFormat.schemaRef # None

\* exactly one variant of the prompt has default: true
validateDefaultVariants(cfg) ==
  Cardinality({i \in DOMAIN cfg.prompt.variants :
                 cfg.prompt.variants[i].default}) = 1

\* every json_schema variant has a schemaRef that responseSchemas[schemaRef]
\* finds; the schemas themselves are valid and strict
validateResponseSchemas(cfg) ==
  \A i \in DOMAIN cfg.prompt.variants :
    LET rf == cfg.prompt.variants[i].responseFormat
    IN  rf.type = "json_schema" =>
          /\ rf.schemaRef # None
          /\ cfg.responseSchemas # Absent
          /\ Lookup(cfg.responseSchemas[1], rf.schemaRef)

VariantIds(p) == {p.variants[i].id : i \in DOMAIN p.variants}

\* rule targets and phased weight keys are variant ids; some rule and, in
\* every phased entry, some weight is above 0
validateRoutingConfiguration(p) ==
  /\ \A i \in DOMAIN p.routing.rules :
       p.routing.rules[i].target \in VariantIds(p)
  /\ \E i \in DOMAIN p.routing.rules :
       WeightOrDefault(p.routing.rules[i].weight) > 0
  /\ \A i \in DOMAIN p.routing.phased :
       LET w == p.routing.phased[i].weights
       IN  /\ \A k \in DOMAIN w : w[k].key \in VariantIds(p)
           /\ \E k \in DOMAIN w : w[k].weight > 0

\* every fallback target's provider is a key of config.providers
validateFallbackTargets(cfg) ==
  \A i \in DOMAIN cfg.prompt.variants :
    \A k \in DOMAIN cfg.prompt.variants[i].fallback :
      cfg.prompt.variants[i].fallback[k].provider \in cfg.providers

\* REQUIRED[provider.type] ?? []
REQUIRED(type) == IF type = "anthropic" THEN {"max_tokens"} ELSE {}

\* config.providers[alias].type; an inherited member has no type
ProviderTypeOf(cfg, alias) ==
  IF alias \in cfg.providers THEN ProviderCfg(alias) ELSE None

\* validateRequiredParameters of ConfigLoader and of validation/index.ts
\* stated for every variant: a variant without a provider entry throws
loaderValidateRequiredParameters(cfg) ==
  \A i \in DOMAIN cfg.prompt.variants :
    LET variant == cfg.prompt.variants[i]
    IN  /\ Lookup(cfg.providers, variant.provider)
        /\ REQUIRED(ProviderTypeOf(cfg, variant.provider))
             \subseteq variant.parameters

\* ConfigValidator.validateRequiredParameters: a variant without a
\* provider entry is skipped
validateRequiredParameters(cfg) ==
  \A i \in DOMAIN cfg.prompt.variants :
    LET variant == cfg.prompt.variants[i]
    IN  Lookup(cfg.providers, variant.provider)
          => REQUIRED(ProviderTypeOf(cfg, variant.provider))
               \subseteq variant.parameters

\* liquid.parse(template) does not throw
ParsesAsLiquid(template) == template # "{% if %}"

\* validateTemplates: every message template parses
validateTemplates(cfg) ==
  \A i \in DOMAIN cfg.prompt.variants :
    ParsesAsLiquid(cfg.prompt.variants[i].template)

\* ConfigValidator.validateAndLoadConfigFile returns the config
validateAndLoadConfigFile(cfg) ==
  /\ validateSchema(cfg)
  /\ validateVersion(cfg)
  /\ validateDefaultVariants(cfg)
  /\ validateResponseSchemas(cfg)
  /\ validateRoutingConfiguration(cfg.prompt)
  /\ validateFallbackTargets(cfg)
  /\ validateRequiredParameters(cfg)

\* validateConfig of validation/index.ts returns the config
validateConfig(cfg) ==
  /\ validateSchema(cfg)
  /\ checkSchemaVersion(cfg)
  /\ validateDefaultVariants(cfg)
  /\ loaderValidateRequiredParameters(cfg)
  /\ validateTemplates(cfg)

\* loadConfigFile without validateDefaultVariants
loadConfigFileNoDefaults(cfg) ==
  /\ checkSchemaVersion(cfg)
  /\ loaderValidateRequiredParameters(cfg)

\* ConfigLoader.loadConfigFile returns the config
loadConfigFile(cfg) ==
  /\ checkSchemaVersion(cfg)
  /\ validateDefaultVariants(cfg)
  /\ loaderValidateRequiredParameters(cfg)

\* the three entry points that accept a parsed config file
Acceptors == {"ConfigValidator", "validateConfig", "ConfigLoader"}


\* the parsed config files the validators and the loader are tried on
Versions == {"1.0.0", "2.0.0"}

ProviderRegistries == {{"p_openai", "p_anthropic"}, {"p_openai"}}

SchemaRegistries == {Absent, Some({}), Some({"s_json"})}

ResponseFormats ==
  { [type |-> "raw_text", schemaRef |-> None],
    [type |-> "json_schema", schemaRef |-> None],
    [type |-> "json_schema", schemaRef |-> "s_json"],
    [type |-> "json_schema", schemaRef |-> "constructor"] }

ConfigVariant(id, isDefault, provider, parameters, rf, fallback, template) ==
  [id |-> id, default |-> isDefault, provider |-> provider,
   model |-> "m", parameters |-> parameters, responseFormat |-> rf,
   fallback |-> fallback, template |-> template]

FirstVariants ==
  { ConfigVariant("v_a", d, p, ps, rf, fb, t) :
      d \in BOOLEAN, p \in {"p_openai", "p_anthropic", "constructor"},
      ps \in {{}, {"max_tokens"}}, rf \in ResponseFormats,
      fb \in {<<>>, <<[provider |-> "p_missing", model |-> "ghost"]>>},
      t \in {"Hello {{name}}", "{% if %}"} }

SecondVariants ==
  { <<>>,
    <<ConfigVariant("v_b", TRUE, "p_openai", {},
                    [type |-> "raw_text", schemaRef |-> None], <<>>, "Bye")>> }

CandidateRules ==
  { <<Rule("v_a", Absent, {})>>, <<Rule("v_ghost", Absent, {})>>,
    <<Rule("v_a", Some(0), {})>> }

CandidatePhased ==
  { <<>>,
    <<Phase(1, Absent, <<[key |-> "v_a", weight |-> 100]>>)>>,
    <<Phase(1, Absent, <<[key |-> "v_ghost", weight |-> 100]>>)>> }

CandidateConfigs ==
  { [version |-> ver, providers |-> ps, responseSchemas |-> rs,
     prompt |-> [variants |-> <<va>> \o vb,
                 routing |-> [rules |-> r, phased |-> ph]]] :
      ver \in Versions, ps \in ProviderRegistries, rs \in SchemaRegistries,
      va \in FirstVariants, vb \in SecondVariants, r \in CandidateRules,
      ph \in CandidatePhased }

\* a parsed config file, not yet handed to a validator or the loader
InitValidate ==
  /\ pc = "validate"
  /\ candidate \in CandidateConfigs
  /\ accepted = NoVerdict
  /\ sdkError = None
  /\ providerError = NoError
  /\ canonical = None
  /\ out = None
  /\ prompt = None
  /\ promptId = "greeting"
  /\ userId = None
  /\ digest = <<0, 0>>
  /\ tags = {}
  /\ now = 1
  /\ fileOk = TRUE
  /\ apiKeys = {}
  /\ sinkSet = FALSE
  /\ FreshCall
  /\ FreshInstance
  /\ callers = <<>>
  /\ sha = <<>>
  /\ NoCalls

validateRest == <<requestVars, repeatVars, cacheVars, execVars, selection,
                  providers, obsBuilder, variantId, lastProviderType, caught,
                  events, result, candidate, sdkError, providerError,
                  canonical, out>>

\* new ConfigValidator().validateAndLoadConfigFile(path)
ValidateAndLoadConfigFile ==
  /\ pc = "validate"
  /\ accepted' = [by |-> "ConfigValidator",
                  ok |-> validateAndLoadConfigFile(candidate)]
  /\ pc' = "validated"
  /\ UNCHANGED validateRest

\* validateConfig(config) of the promptuna/validate package
ValidateConfig ==
  /\ pc = "validate"
  /\ accepted' = [by |-> "validateConfig", ok |-> validateConfig(candidate)]
  /\ pc' = "validated"
  /\ UNCHANGED validateRest

\* new ConfigLoader().loadConfigFile(path), as Promptuna.getConfig calls it
LoadConfigFile ==
  /\ pc = "validate"
  /\ accepted' = [by |-> "ConfigLoader", ok |-> loadConfigFile(candidate)]
  /\ pc' = "validated"
  /\ UNCHANGED validateRest

NextValidate ==
  \/ ValidateAndLoadConfigFile
  \/ ValidateConfig
  \/ LoadConfigFile

SpecValidate == InitValidate /\ [][NextValidate]_vars

----------------------------------------------------------------------------
(* Which configs are accepted: C22 - C24 *)

RuleTargetsResolve(cfg) ==
  \A i \in DOMAIN cfg.prompt.routing.rules :
    cfg.prompt.routing.rules[i].target \in VariantIds(cfg.prompt)

PhasedKeysResolve(cfg) ==
  \A i \in DOMAIN cfg.prompt.routing.phased :
    \A k \in DOMAIN cfg.prompt.routing.phased[i].weights :
      cfg.prompt.routing.phased[i].weights[k].key
        \in VariantIds(cfg.prompt)

FallbackProvidersResolve(cfg) ==
  \A i \in DOMAIN cfg.prompt.variants :
    \A k \in DOMAIN cfg.prompt.variants[i].fallback :
      cfg.prompt.variants[i].fallback[k].provider \in cfg.providers

\* the schemaRef is a key of the responseSchemas the file defines
SchemaRefsResolve(cfg) ==
  \A i \in DOMAIN cfg.prompt.variants :
    cfg.prompt.variants[i].responseFormat.type = "json_schema" =>
      /\ cfg.responseSchemas # Absent
      /\ cfg.prompt.variants[i].responseFormat.schemaRef
           \in cfg.responseSchemas[1]

ReferentiallyClosed(cfg) ==
  /\ RuleTargetsResolve(cfg)
  /\ PhasedKeysResolve(cfg)
  /\ FallbackProvidersResolve(cfg)
  /\ SchemaRefsResolve(cfg)

VariantProvidersResolve(cfg) ==
  \A i \in DOMAIN cfg.prompt.variants :
    cfg.prompt.variants[i].provider \in cfg.providers

AcceptedBy(by) == pc = "validated" /\ accepted.by = by /\ accepted.ok

\* C22: every config a validator (ConfigValidator.validateAndLoadConfigFile,
\* validateConfig) accepts is referentially closed: rule targets and phased
\* weight keys are variants of the prompt, fallback providers are entries
\* of providers, json_schema schemaRefs are entries of responseSchemas.
C22_AcceptedIsClosed ==
  (AcceptedBy("ConfigValidator") \/ AcceptedBy("validateConfig"))
    => ReferentiallyClosed(candidate)

C24_VariantProviderResolves ==
  (\E by \in Acceptors : AcceptedBy(by))
    => VariantProvidersResolve(candidate)

----------------------------------------------------------------------------
(* Error normalisation of the provider adapters: providers/google.ts and   *)
(* providers/anthropic.ts                                                  *)

\* the statuses an SDK error can carry
HttpStatuses == {400, 401, 403, 404, 408, 429, 500, 502, 503, 504}

OptionalStatuses == {Absent} \cup {Some(n) : n \in HttpStatuses}

\* what the SDK call threw: an object with or without status and httpStatus
SdkErrors ==
  { [adapter |-> a, status |-> st, httpStatus |-> hs] :
      a \in {"anthropic", "google"}, st \in OptionalStatuses,
      hs \in OptionalStatuses }

\* error?.status ?? error?.httpStatus
StatusOf(error) ==
  IF error.status # Absent THEN error.status ELSE error.httpStatus

\* the adapter's catch block with 503 counted as a timeout
normalizeErrorWith503(error, i) ==
  IF StatusOf(error) = Some(429)
  THEN Outcome("ProviderError", "rate-limit", TRUE, i, "attempt")
  ELSE IF StatusOf(error) \in {Some(408), Some(503), Some(504)}
       THEN Outcome("ProviderError", "timeout", TRUE, i, "attempt")
       ELSE Outcome("ProviderError", "provider-error", FALSE, i, "attempt")

\* the adapter's catch block: the ProviderError thrown for an SDK error
\* during the attempt on target i
normalizeError(error, i) ==
  IF StatusOf(error) = Some(429)
  THEN Outcome("ProviderError", "rate-limit", TRUE, i, "attempt")
  ELSE IF StatusOf(error) \in {Some(408), Some(504)}
       THEN Outcome("ProviderError", "timeout", TRUE, i, "attempt")
       ELSE Outcome("ProviderError", "provider-error", FALSE, i, "attempt")

\* the targets of the call whose primary attempt fails
AdapterTargets(adapter) ==
  << [providerId |-> "p_primary", model |-> "m", providerType |-> adapter],
     [providerId |-> "p_openai", model |-> "gpt-4",
      providerType |-> "openai"] >>

\* executeWithFallback is about to call the adapter of its first target,
\* whose SDK call will throw sdkError
InitAdapter ==
  /\ pc = "adapter"
  /\ sdkError \in SdkErrors
  /\ providerError = NoError
  /\ candidate = None
  /\ accepted = NoVerdict
  /\ canonical = None
  /\ out = None
  /\ prompt = None
  /\ promptId = "greeting"
  /\ userId = None
  /\ digest = <<0, 0>>
  /\ tags = {}
  /\ now = 1
  /\ fileOk = TRUE
  /\ apiKeys = {"openai", "anthropic", "google"}
  /\ sinkSet = FALSE
  /\ selection = NoSelection
  /\ providers = {}
  /\ obsBuilder = NewBuilder
  /\ variantId = "unknown"
  /\ lastProviderType = "unknown"
  /\ targets = AdapterTargets(sdkError.adapter)
  /\ idx = 1
  /\ lastError = NoError
  /\ attempts = <<>>
  /\ execResult = NoResult
  /\ caught = NoError
  /\ events = <<>>
  /\ result = NoResult
  /\ FreshInstance
  /\ callers = <<>>
  /\ sha = <<>>
  /\ NoCalls

adapterRest == <<requestVars, repeatVars, cacheVars, selection, providers,
                 obsBuilder, variantId, lastProviderType, caught, events,
                 result, candidate, accepted, sdkError, canonical, out,
                 targets>>

\* provider.chatCompletion: the SDK call throws, the catch block throws the
\* normalised ProviderError
AdapterThrows ==
  /\ pc = "adapter"
  /\ providerError' = normalizeError(sdkError, idx)
  /\ pc' = "thrown"
  /\ UNCHANGED <<adapterRest, idx, lastError, attempts, execResult>>

\* the catch block of the executor's loop receives the ProviderError
ExecutorCatches ==
  /\ pc = "thrown"
  /\ attempts' = Append(attempts, [idx |-> idx, target |-> targets[idx],
                                   outcome |-> providerError])
  /\ IF Disposition(providerError) = "continue"
     THEN /\ lastError' = StoreLastError(lastError, providerError)
          /\ idx' = NextTarget(idx)
          /\ pc' = "nextTarget"
          /\ UNCHANGED execResult
     ELSE /\ execResult' = [kind |-> "thrown", error |-> providerError]
          /\ pc' = "failed"
          /\ UNCHANGED <<lastError, idx>>
  /\ UNCHANGED <<adapterRest, providerError>>

NextAdapter ==
  \/ AdapterThrows
  \/ ExecutorCatches

SpecAdapter == InitAdapter /\ [][NextAdapter]_vars

----------------------------------------------------------------------------
(* Which provider failures are retryable: C25, C26 *)

\* the executor has dealt with the adapter's ProviderError
ExecutorDone == pc \in {"nextTarget", "failed"}

C26_ServiceUnavailableRetried ==
  (ExecutorDone /\ StatusOf(sdkError) = Some(503)) =>
    /\ providerError.retryable
    /\ pc = "nextTarget"
    /\ idx = 2

----------------------------------------------------------------------------
(* The parameter mapper: buildProviderParams and ProviderCapabilities      *)

MaxParams == 2

\* a JavaScript value of variant.parameters; numbers are counted in tenths
Number(n) == [type |-> "number", v |-> n]
NaN == [type |-> "NaN", v |-> 0]
String == [type |-> "string", v |-> 0]

\* no entry for the key or the provider type, and an entry that is false
NoRule == [param |-> None, min |-> Absent, max |-> Absent, scale |-> FALSE]
Unsupported == [param |-> "false", min |-> Absent, max |-> Absent,
                scale |-> FALSE]

MappingRule(param, min, max, scale) ==
  [param |-> param, min |-> min, max |-> max, scale |-> scale]

\* ProviderCapabilities[key]?.[providerType]; scale is v => v * 2 where set
ProviderCapabilities(key, providerType) ==
  IF key = "temperature"
  THEN IF providerType = "anthropic"
       THEN MappingRule("temperature", Some(0), Some(10), FALSE)
       ELSE MappingRule("temperature", Some(0), Some(20), TRUE)
  ELSE IF key = "max_tokens"
  THEN IF providerType = "openai"
       THEN MappingRule("max_completion_tokens", Absent, Absent, FALSE)
       ELSE IF providerType = "anthropic"
            THEN MappingRule("max_tokens", Absent, Absent, FALSE)
            ELSE MappingRule("maxOutputTokens", Absent, Absent, FALSE)
  ELSE IF key = "frequency_penalty"
  THEN IF providerType = "openai"
       THEN MappingRule("frequency_penalty", Some(-20), Some(20), FALSE)
       ELSE IF providerType = "anthropic" THEN Unsupported
            ELSE MappingRule("frequencyPenalty", Some(-20), Some(20), FALSE)
  ELSE IF key = "top_p"
  THEN IF providerType = "google"
       THEN MappingRule("topP", Absent, Absent, FALSE)
       ELSE MappingRule("top_p", Absent, Absent, FALSE)
  ELSE IF key = "presence_penalty"
  THEN IF providerType = "openai"
       THEN MappingRule("presence_penalty", Some(-20), Some(20), FALSE)
       ELSE IF providerType = "anthropic" THEN Unsupported
            ELSE MappingRule("presencePenalty", Some(-20), Some(20), FALSE)
  ELSE IF key = "stop"
  THEN IF providerType = "openai"
       THEN MappingRule("stop", Absent, Absent, FALSE)
       ELSE IF providerType = "anthropic"
            THEN MappingRule("stop_sequences", Absent, Absent, FALSE)
            ELSE MappingRule("stopSequences", Absent, Absent, FALSE)
  ELSE IF key = "logit_bias"
  THEN IF providerType = "openai"
       THEN MappingRule("logit_bias", Absent, Absent, FALSE)
       ELSE Unsupported
  ELSE NoRule

\* scale(v) for scale = v => v * 2: a string that is no number gives NaN
Scale(v) == IF v.type = "number" THEN Number(2 * v.v) ELSE NaN

Max(a, b) == IF a > b THEN a ELSE b

\* Math.max(min, v) and Math.min(max, v) where declared; NaN stays NaN
Clamp(rule, v) ==
  LET lo == IF rule.min = Absent THEN v.v ELSE Max(rule.min[1], v.v)
      hi == IF rule.max = Absent THEN lo ELSE Min({rule.max[1], lo})
  IN  Number(hi)

\* clamp first, then scale
WrittenValueClampFirst(rule, value) ==
  LET v == IF value.type = "number" THEN Clamp(rule, value) ELSE value
  IN  IF rule.scale THEN Scale(v) ELSE v

\* scale if present, then clamp if typeof v === 'number'; typeof NaN is
\* 'number' too, and Math.max and Math.min leave NaN as it is
WrittenValue(rule, value) ==
  LET v == IF rule.scale THEN Scale(value) ELSE value
  IN  IF v.type = "number" THEN Clamp(rule, v) ELSE v

HasRule(key, providerType) ==
  /\ ProviderCapabilities(key, providerType) # NoRule
  /\ ProviderCapabilities(key, providerType) # Unsupported

\* buildProviderParams(providerType, canonical): the object it returns, as
\* a function from the written names to the written values
buildProviderParams(providerType, params) ==
  LET kept == {k \in DOMAIN params : HasRule(k, providerType)}
      nameOf(k) == ProviderCapabilities(k, providerType).param
  IN  [name \in {nameOf(k) : k \in kept} |->
         LET k == CHOOSE kk \in kept : nameOf(kk) = name
         IN  WrittenValue(ProviderCapabilities(k, providerType), params[k])]

\* the canonical keys and values buildProviderParams is tried on; "seed" has
\* no entry in ProviderCapabilities
CanonicalKeys ==
  {"temperature", "max_tokens", "frequency_penalty", "logit_bias", "seed"}

CanonicalValues == {Number(n) : n \in {-30, -5, 0, 5, 10, 15, 30}} \cup {String}

CanonicalParams ==
  UNION { [ks -> CanonicalValues] :
            ks \in {x \in SUBSET CanonicalKeys :
                      Cardinality(x) \in 1..MaxParams} }

InitParams ==
  /\ pc = "map"
  /\ canonical \in [providerType : ProviderTypes, params : CanonicalParams]
  /\ out = None
  /\ candidate = None
  /\ accepted = NoVerdict
  /\ sdkError = None
  /\ providerError = NoError
  /\ prompt = None
  /\ promptId = "greeting"
  /\ userId = None
  /\ digest = <<0, 0>>
  /\ tags = {}
  /\ now = 1
  /\ fileOk = TRUE
  /\ apiKeys = {}
  /\ sinkSet = FALSE
  /\ FreshCall
  /\ FreshInstance
  /\ callers = <<>>
  /\ sha = <<>>
  /\ NoCalls

\* buildProviderParams(providerType, canonical) returns
BuildProviderParams ==
  /\ pc = "map"
  /\ out' = buildProviderParams(canonical.providerType, canonical.params)
  /\ pc' = "mapped"
  /\ UNCHANGED <<requestVars, repeatVars, cacheVars, execVars, selection,
                 providers, obsBuilder, variantId, lastProviderType, caught,
                 events, result, candidate, accepted, sdkError,
                 providerError, canonical>>

NextParams == BuildProviderParams

SpecParams == InitParams /\ [][NextParams]_vars

----------------------------------------------------------------------------
(* What the mapper writes: C27 *)

\* the rule of a canonical key for the provider type of the call
RuleOf(k) == ProviderCapabilities(k, canonical.providerType)

\* C27: every canonical parameter with a rule for the provider type is
\* written under the mapped name, and nothing else is written; a numeric
\* value is scaled and then clamped, so it lies inside the declared
\* [min, max] and a temperature t in [0,1] becomes 2*t for OpenAI and Google
\* and t for Anthropic; a value that is no number and has no scale is
\* written as it is.
C27_ScaleThenClamp ==
  pc = "mapped" =>
    /\ DOMAIN out = {RuleOf(k).param :
                       k \in {kk \in DOMAIN canonical.params :
                                HasRule(kk, canonical.providerType)}}
    /\ \A k \in DOMAIN canonical.params :
         HasRule(k, canonical.providerType) =>
           LET v == canonical.params[k]
               w == out[RuleOf(k).param]
           IN  /\ v.type = "number" =>
                    /\ w.type = "number"
                    /\ RuleOf(k).min # Absent => w.v >= RuleOf(k).min[1]
                    /\ RuleOf(k).max # Absent => w.v <= RuleOf(k).max[1]
                    /\ (RuleOf(k).min = Absent /\ RuleOf(k).max = Absent)
                         => w = v
               /\ (v.type = "number" /\ k = "temperature"
                   /\ v.v >= 0 /\ v.v <= 10)
                    => w.v = IF canonical.providerType = "anthropic"
                             THEN v.v ELSE 2 * v.v
               /\ (v.type # "number" /\ ~RuleOf(k).scale) => w = v

\* a temperature of 1.5 for OpenAI was doubled and clamped to 2.0, next to
\* a key that was dropped
C27_Witness ==
  /\ pc = "mapped"
  /\ canonical.providerType = "openai"
  /\ DOMAIN canonical.params = {"temperature", "seed"}
  /\ canonical.params["temperature"] = Number(15)
  /\ DOMAIN out = {"temperature"}
  /\ out["temperature"] = Number(20)

----------------------------------------------------------------------------
(* Phases against the other rules: C28 *)

----------------------------------------------------------------------------
(* Weight 0 under weighted routing: C29 *)

WeightedReasons == {"tag-match", "phased-rollout", "weight-distribution"}

\* C29: on a prompt whose routing the validator accepts, a variant returned
\* by a weighted layer (tag-match, phased-rollout, weight-distribution) has
\* weight > 0 in the weight map of that layer.
C29_NeverWeightZero ==
  ( /\ pc = "selected"
    /\ validateRoutingConfiguration(prompt)
    /\ selection.ok
    /\ selection.reason \in WeightedReasons )
  => (selection.weightPicked # Absent /\ selection.weightPicked[1] > 0)

----------------------------------------------------------------------------
(* A failed config load: C30 *)

\* C30: a getTemplate or chatCompletion call that starts after the config
\* load has failed makes a fresh load attempt: loadConfigFile is called
\* again and the call awaits that new load, not the failed one.
C30_FailedLoadRetried ==
  [][ ( /\ configPromise.state = "rejected"
        /\ \E c \in Callers :
             callers[c].pc = "idle" /\ callers'[c].pc # "idle" )
      => ( /\ reads' = reads + 1
           /\ configPromise'.state = "pending" ) ]_vars

====
